---- MODULE Spec2Model ----
(***************************************************************************)
(* A model of spydey's spider.py: the URL queues ("frontier" variants) and *)
(* the Spider crawl loop.                                                  *)
(*                                                                         *)
(* Python strings are modelled as sequences of one-character strings, so   *)
(* that str.count, str.split, str.strip and friends are computed as the    *)
(* code computes them.  A queue object is a record of its attributes.      *)
(***************************************************************************)
EXTENDS Integers, Sequences, FiniteSets, TLC

(***************************************************************************)
(* Bounds of the model.                                                    *)
(***************************************************************************)
MaxBatch == 2

MaxLinks == 2

MaxRequests == 2

(***************************************************************************)
(* Python values.                                                          *)
(***************************************************************************)
None == <<"None">>

Slash == "/"

Digits == {"0", "1", "2", "3", "4", "5", "6", "7", "8", "9"}

Range(s) == {s[i] : i \in DOMAIN s}

Last(s) == s[Len(s)]

Front(s) == SubSeq(s, 1, Len(s) - 1)

\* list.pop(i), 1-based here
RemoveAt(s, i) == SubSeq(s, 1, i - 1) \o SubSeq(s, i + 1, Len(s))

\* d[k] = v on a dict
DictPut(d, k, v) == [x \in DOMAIN d \cup {k} |-> IF x = k THEN v ELSE d[x]]

EmptyDict == [x \in {} |-> None]

\* The sequences over S of length at most n
SeqUpTo(S, n) == UNION {[1..k -> S] : k \in 0..n}

\* The orders in which a set can be iterated
Orderings(S) == {f \in [1..Cardinality(S) -> S] : Range(f) = S}

(***************************************************************************)
(* str methods used by the code.                                           *)
(***************************************************************************)
\* s.count(c) for a one-character c
StrCount(s, c) == Cardinality({i \in DOMAIN s : s[i] = c})

\* index of the first c in s, 0 when there is none
StrFind(s, c) ==
  IF \E i \in DOMAIN s : s[i] = c
  THEN CHOOSE i \in DOMAIN s : s[i] = c /\ \A j \in 1..(i - 1) : s[j] # c
  ELSE 0

\* index of the last c in s, 0 when there is none
StrRFind(s, c) ==
  IF \E i \in DOMAIN s : s[i] = c
  THEN CHOOSE i \in DOMAIN s : s[i] = c /\ \A j \in (i + 1)..Len(s) : s[j] # c
  ELSE 0

\* index of the first character of s that is in the set cs, at or after
\* position from; Len(s) + 1 when there is none
FindAnyFrom(s, cs, from) ==
  IF \E i \in from..Len(s) : s[i] \in cs
  THEN CHOOSE i \in from..Len(s) :
         s[i] \in cs /\ \A j \in from..(i - 1) : s[j] \notin cs
  ELSE Len(s) + 1

\* s[:i] and s[i+1:] around the 1-based position i
Before(s, i) == SubSeq(s, 1, i - 1)

After(s, i) == SubSeq(s, i + 1, Len(s))

RECURSIVE StrSplit(_, _)
\* s.split(c)
StrSplit(s, c) ==
  IF StrFind(s, c) = 0 THEN <<s>>
  ELSE <<Before(s, StrFind(s, c))>> \o StrSplit(After(s, StrFind(s, c)), c)

RECURSIVE StrJoin(_, _)
\* c.join(parts)
StrJoin(parts, c) ==
  IF Len(parts) = 0 THEN <<>>
  ELSE IF Len(parts) = 1 THEN parts[1]
  ELSE parts[1] \o <<c>> \o StrJoin(Tail(parts), c)

RECURSIVE StrLStrip(_, _)
StrLStrip(s, c) ==
  IF Len(s) > 0 /\ s[1] = c THEN StrLStrip(Tail(s), c) ELSE s

RECURSIVE StrRStrip(_, _)
StrRStrip(s, c) ==
  IF Len(s) > 0 /\ Last(s) = c THEN StrRStrip(Front(s), c) ELSE s

\* s.strip(c)
StrStrip(s, c) == StrRStrip(StrLStrip(s, c), c)

\* s.startswith(p)
StartsWith(s, p) == Len(p) <= Len(s) /\ SubSeq(s, 1, Len(p)) = p

\* the key of the sorts in DepthFirstQueue.extend and
\* PatternPrioritizingUrlQueue.extend: lambda s: s.count('/')
SlashCount(s) == StrCount(s, Slash)

RECURSIVE InsertByKey(_, _)
\* insert x after every element whose key is <= x's (keeps the sort stable)
InsertByKey(sorted, x) ==
  IF Len(sorted) = 0 THEN <<x>>
  ELSE IF SlashCount(Last(sorted)) <= SlashCount(x) THEN Append(sorted, x)
  ELSE Append(InsertByKey(Front(sorted), x), Last(sorted))

RECURSIVE SortBySlashes(_)
\* urls.sort(key=lambda s: s.count('/')): ascending and stable
SortBySlashes(urls) ==
  IF Len(urls) = 0 THEN <<>>
  ELSE InsertByKey(SortBySlashes(Front(urls)), Last(urls))

RECURSIVE InsertByKeyDesc(_, _)
InsertByKeyDesc(sorted, x) ==
  IF Len(sorted) = 0 THEN <<x>>
  ELSE IF SlashCount(Last(sorted)) >= SlashCount(x) THEN Append(sorted, x)
  ELSE Append(InsertByKeyDesc(Front(sorted), x), Last(sorted))

RECURSIVE SortBySlashesReverse(_)
\* sorted(urls, key=lambda s: s.count('/'), reverse=True): descending, and
\* elements with equal keys keep their order
SortBySlashesReverse(urls) ==
  IF Len(urls) = 0 THEN <<>>
  ELSE InsertByKeyDesc(SortBySlashesReverse(Front(urls)), Last(urls))

(***************************************************************************)
(* urlparse, posixpath and patternize, as far as the code uses them.       *)
(***************************************************************************)
Letters ==
  {"a", "b", "c", "d", "e", "f", "g", "h", "i", "j", "k", "l", "m",
   "n", "o", "p", "q", "r", "s", "t", "u", "v", "w", "x", "y", "z"}

\* urlparse.scheme_chars
SchemeChars == Letters \cup Digits \cup {"+", "-", "."}

\* urlsplit works through the url from the left; u is what it has cut off so
\* far, and u.url what is left.  First the scheme before the first colon.
SplitScheme(url) ==
  IF StrFind(url, ":") > 1 /\ \A j \in 1..(StrFind(url, ":") - 1) : url[j] \in SchemeChars
  THEN [scheme |-> Before(url, StrFind(url, ":")), url |-> After(url, StrFind(url, ":"))]
  ELSE [scheme |-> <<>>, url |-> url]

\* urlsplit: the netloc between a leading // and the next /, ? or #
SplitNetloc(u) ==
  IF StartsWith(u.url, <<Slash, Slash>>)
  THEN [scheme |-> u.scheme,
        netloc |-> SubSeq(u.url, 3, FindAnyFrom(u.url, {Slash, "?", "#"}, 3) - 1),
        url |-> SubSeq(u.url, FindAnyFrom(u.url, {Slash, "?", "#"}, 3), Len(u.url))]
  ELSE [scheme |-> u.scheme, netloc |-> <<>>, url |-> u.url]

\* urlsplit: the fragment after the first #, cut only when allow_fragments
SplitFragment(u, allow_fragments) ==
  IF allow_fragments /\ StrFind(u.url, "#") > 0
  THEN [scheme |-> u.scheme, netloc |-> u.netloc,
        fragment |-> After(u.url, StrFind(u.url, "#")),
        url |-> Before(u.url, StrFind(u.url, "#"))]
  ELSE [scheme |-> u.scheme, netloc |-> u.netloc, fragment |-> <<>>, url |-> u.url]

\* urlsplit: the query after the first ?; the rest is the path
SplitQuery(u) ==
  IF StrFind(u.url, "?") > 0
  THEN [scheme |-> u.scheme, netloc |-> u.netloc,
        path |-> Before(u.url, StrFind(u.url, "?")),
        query |-> After(u.url, StrFind(u.url, "?")), fragment |-> u.fragment]
  ELSE [scheme |-> u.scheme, netloc |-> u.netloc, path |-> u.url,
        query |-> <<>>, fragment |-> u.fragment]

\* urlparse.urlsplit(url, allow_fragments=...)
UrlSplit(url, allow_fragments) ==
  SplitQuery(SplitFragment(SplitNetloc(SplitScheme(url)), allow_fragments))

\* urlunsplit: the path after //netloc, which gets a leading slash
UnsplitNetloc(scheme, netloc, path) ==
  IF Len(netloc) > 0 \/ (Len(scheme) > 0 /\ StartsWith(path, <<Slash, Slash>>))
  THEN <<Slash, Slash>> \o netloc \o
       (IF Len(path) > 0 /\ path[1] # Slash THEN <<Slash>> ELSE <<>>) \o path
  ELSE path

\* urlparse.urlunsplit((scheme, netloc, path, query, fragment))
UrlUnsplit(scheme, netloc, path, query, fragment) ==
  (IF Len(scheme) > 0 THEN scheme \o <<":">> ELSE <<>>)
  \o UnsplitNetloc(scheme, netloc, path)
  \o (IF Len(query) > 0 THEN <<"?">> \o query ELSE <<>>)
  \o (IF Len(fragment) > 0 THEN <<"#">> \o fragment ELSE <<>>)

\* urlparse._splitparams(url)[0]: the ;parameters of the last segment go
SplitParams(path) ==
  Before(path, FindAnyFrom(path, {";"}, IF StrRFind(path, Slash) = 0 THEN 1
                                         ELSE StrRFind(path, Slash)))

\* urlparse.urlparse(s).path
UrlParsePath(s) == SplitParams(UrlSplit(s, TRUE).path)

RECURSIVE NormComps(_, _)
\* the loop of posixpath.normpath over the components of a relative path
NormComps(comps, new_comps) ==
  IF Len(comps) = 0 THEN new_comps
  ELSE IF Head(comps) = <<>> \/ Head(comps) = <<".">>
  THEN NormComps(Tail(comps), new_comps)
  ELSE IF \/ Head(comps) # <<".", ".">>
          \/ Len(new_comps) = 0
          \/ Last(new_comps) = <<".", ".">>
  THEN NormComps(Tail(comps), Append(new_comps, Head(comps)))
  ELSE NormComps(Tail(comps), Front(new_comps))

\* path or '.'
OrDot(path) == IF Len(path) = 0 THEN <<".">> ELSE path

\* posixpath.normpath(path) for a path that does not start with a slash
NormPath(path) == OrDot(StrJoin(NormComps(StrSplit(path, Slash), <<>>), Slash))

\* the shape classes of patternize.patternize: a digit, a letter, or the
\* character itself
CharClass(ch) ==
  IF ch \in Digits THEN "<num>" ELSE IF ch \in Letters THEN "<word>" ELSE ch

\* a token put in front of the tokens of the rest: a run of digits or of
\* letters is one token
PutToken(tok, rest) ==
  IF tok \in {"<num>", "<word>"} /\ Len(rest) > 0 /\ rest[1] = tok
  THEN rest ELSE <<tok>> \o rest

RECURSIVE Patternize(_)
\* patternize.patternize(p): every maximal run of digits becomes one numeric
\* token, every maximal run of letters one word token
Patternize(p) ==
  IF Len(p) = 0 THEN <<>> ELSE PutToken(CharClass(Head(p)), Patternize(Tail(p)))

\* parts[:1] + [patternize.patternize(p) for p in parts[1:]], joined
JoinPattern(parts) ==
  StrJoin(<<parts[1]>> \o [i \in 1..(Len(parts) - 1) |-> Patternize(parts[i + 1])], Slash)

\* make_pattern, from the stripped path on
PatternOfPath(path) ==
  IF Len(path) = 0 THEN <<>> ELSE JoinPattern(StrSplit(NormPath(path), Slash))

\* PatternPrioritizingUrlQueue.make_pattern
MakePattern(s) == PatternOfPath(StrStrip(UrlParsePath(s), Slash))

(***************************************************************************)
(* The URL queues.  A queue object is the record of its attributes; cls is *)
(* its class, by the name it has in queuetypes.                            *)
(***************************************************************************)
QueueTypes == {"breadth-first", "random", "depth-first", "hybrid", "pattern"}

\* FifoUrlQueue.__init__ and RandomizingUrlQueue.__init__
FifoInit(cls) ==
  [cls |-> cls, urls |-> <<>>, known_urls |-> {}, referrers |-> EmptyDict]

\* HybridTraverseQueue.__init__
HybridInit ==
  [cls |-> "hybrid", urls |-> <<>>, known_urls |-> {}, referrers |-> EmptyDict,
   next |-> "pop"]

\* PatternPrioritizingUrlQueue.__init__
PatternInit ==
  [cls |-> "pattern", urls |-> <<>>, known_urls |-> {}, referrers |-> EmptyDict,
   priority_urls |-> <<>>, known_patterns |-> EmptyDict]

\* queuetypes[opts.traversal]()
NewQueue(cls) ==
  IF cls = "hybrid" THEN HybridInit
  ELSE IF cls = "pattern" THEN PatternInit
  ELSE FifoInit(cls)

\* Faulty variant of FifoUrlQueue.append: the URL is not added to known_urls.
FifoAppendForgetsKnown(q, url, referrer) ==
  IF url \notin q.known_urls
  THEN [q EXCEPT !.urls = Append(@, url),
                 !.referrers = DictPut(@, url, referrer)]
  ELSE q

\* Faulty variant of FifoUrlQueue.append: duplicates are looked for among the
\* pending URLs instead of known_urls.
FifoAppendChecksPending(q, url, referrer) ==
  IF url \notin Range(q.urls)
  THEN [q EXCEPT !.urls = Append(@, url),
                 !.known_urls = @ \cup {url},
                 !.referrers = DictPut(@, url, referrer)]
  ELSE q

\* Faulty variant of FifoUrlQueue.append: the referrer is recorded on every
\* call, also for a known URL.
FifoAppendOverwritesReferrer(q, url, referrer) ==
  IF url \notin q.known_urls
  THEN [q EXCEPT !.urls = Append(@, url),
                 !.known_urls = @ \cup {url},
                 !.referrers = DictPut(@, url, referrer)]
  ELSE [q EXCEPT !.referrers = DictPut(@, url, referrer)]

\* FifoUrlQueue.append
FifoAppend(q, url, referrer) ==
  IF url \notin q.known_urls
  THEN [q EXCEPT !.urls = Append(@, url),
                 !.known_urls = @ \cup {url},
                 !.referrers = DictPut(@, url, referrer)]
  ELSE q

RECURSIVE FifoExtend(_, _, _)
\* FifoUrlQueue.extend
FifoExtend(q, urls, referrer) ==
  IF Len(urls) = 0 THEN q
  ELSE FifoExtend(FifoAppend(q, Head(urls), referrer), Tail(urls), referrer)

\* Faulty variant of DepthFirstQueue.extend: the batch is not sorted.
DepthFirstExtendUnsorted(q, urls, referrer) == FifoExtend(q, urls, referrer)

\* DepthFirstQueue.extend
DepthFirstExtend(q, urls, referrer) ==
  FifoExtend(q, SortBySlashes(urls), referrer)

\* Faulty variant of PatternPrioritizingUrlQueue.append: the URL, not its
\* pattern, is looked up in known_patterns.
PatternInsertLooksUpUrl(q, url, new_pattern) ==
  IF url \in DOMAIN q.known_patterns
  THEN [q EXCEPT !.urls = Append(@, url),
                 !.known_patterns[new_pattern] = @ + 1]
  ELSE [q EXCEPT !.priority_urls = Append(@, url),
                 !.known_patterns = DictPut(@, new_pattern, 1)]

\* Faulty variant of PatternPrioritizingUrlQueue.append: a URL with a new
\* pattern is put on both piles.
PatternInsertOnBoth(q, url, new_pattern) ==
  IF new_pattern \in DOMAIN q.known_patterns
  THEN [q EXCEPT !.urls = Append(@, url),
                 !.known_patterns[new_pattern] = @ + 1]
  ELSE [q EXCEPT !.priority_urls = Append(@, url),
                 !.urls = Append(@, url),
                 !.known_patterns = DictPut(@, new_pattern, 1)]

\* PatternPrioritizingUrlQueue.append, from the classification on
PatternInsert(q, url, new_pattern) ==
  IF new_pattern \in DOMAIN q.known_patterns
  THEN [q EXCEPT !.urls = Append(@, url),
                 !.known_patterns[new_pattern] = @ + 1]
  ELSE [q EXCEPT !.priority_urls = Append(@, url),
                 !.known_patterns = DictPut(@, new_pattern, 1)]

\* Faulty variant of PatternPrioritizingUrlQueue.append: the pattern of a
\* known URL is counted again.
PatternAppendCountsAgain(q, url, referrer) ==
  IF url \in q.known_urls
  THEN [q EXCEPT !.known_patterns[MakePattern(url)] = @ + 1]
  ELSE PatternInsert([q EXCEPT !.known_urls = @ \cup {url},
                               !.referrers = DictPut(@, url, referrer)],
                     url, MakePattern(url))

\* PatternPrioritizingUrlQueue.append
PatternAppend(q, url, referrer) ==
  IF url \in q.known_urls THEN q
  ELSE PatternInsert([q EXCEPT !.known_urls = @ \cup {url},
                               !.referrers = DictPut(@, url, referrer)],
                     url, MakePattern(url))

RECURSIVE PatternAppendAll(_, _, _)
\* the loop of PatternPrioritizingUrlQueue.extend
PatternAppendAll(q, urls, referrer) ==
  IF Len(urls) = 0 THEN q
  ELSE PatternAppendAll(PatternAppend(q, Head(urls), referrer), Tail(urls), referrer)

\* PatternPrioritizingUrlQueue.extend: the results it can have.  The batch is
\* turned into a set, whose iteration order the code does not control, and
\* the sort keeps that order among URLs with equally many slashes.
PatternExtend(q, urls, referrer) ==
  {PatternAppendAll(q, SortBySlashesReverse(it), referrer) :
     it \in Orderings(Range(urls))}

\* queue.append(url, referrer)
QueueAppend(q, url, referrer) ==
  IF q.cls = "pattern" THEN PatternAppend(q, url, referrer)
  ELSE FifoAppend(q, url, referrer)

\* queue.extend(urls, referrer): the set of its possible results
QueueExtend(q, urls, referrer) ==
  IF q.cls = "pattern" THEN PatternExtend(q, urls, referrer)
  ELSE IF q.cls \in {"depth-first", "hybrid"} THEN {DepthFirstExtend(q, urls, referrer)}
  ELSE {FifoExtend(q, urls, referrer)}

\* What a call of pop() does: the queue it leaves, and the value it returns
\* or the exception it raises.
Returns(q, url) == [queue |-> q, ret |-> url, exc |-> ""]

Raises(q, e) == [queue |-> q, ret |-> None, exc |-> e]

\* Faulty variant of deque.popleft(): None is returned from an empty deque.
DequePopLeftOrNone(q) ==
  IF Len(q.urls) = 0 THEN Returns(q, None)
  ELSE Returns([q EXCEPT !.urls = Tail(@)], Head(q.urls))

\* Faulty variant of deque.popleft(): the first element is returned and left
\* in the deque.
DequePopLeftKeeps(q) ==
  IF Len(q.urls) = 0 THEN Raises(q, "IndexError")
  ELSE Returns(q, Head(q.urls))

\* collections.deque.popleft()
DequePopLeft(q) ==
  IF Len(q.urls) = 0 THEN Raises(q, "IndexError")
  ELSE Returns([q EXCEPT !.urls = Tail(@)], Head(q.urls))

\* collections.deque.pop()
DequePop(q) ==
  IF Len(q.urls) = 0 THEN Raises(q, "IndexError")
  ELSE Returns([q EXCEPT !.urls = Front(@)], Last(q.urls))

\* Faulty variant of FifoUrlQueue.pop: the newest URL is popped.
FifoPopRight(q) == {DequePop(q)}

\* FifoUrlQueue.pop
FifoPop(q) == {DequePopLeft(q)}

\* RandomizingUrlQueue.pop: random.randint(0, -1) raises ValueError
RandomPop(q) ==
  IF Len(q.urls) = 0 THEN {Raises(q, "ValueError")}
  ELSE {Returns([q EXCEPT !.urls = RemoveAt(@, i)], q.urls[i]) : i \in DOMAIN q.urls}

\* DepthFirstQueue.pop
DepthFirstPop(q) == {DequePop(q)}

\* popped = self.next()
CallNext(q) == IF q.next = "popleft" THEN DequePopLeft(q) ELSE DequePop(q)

\* Faulty variant of HybridTraverseQueue.pop: self.next is called first, then
\* toggled.
HybridPopCallsFirst(q) ==
  {[queue |-> [CallNext(q).queue EXCEPT !.next = IF @ = "pop" THEN "popleft" ELSE "pop"],
    ret |-> CallNext(q).ret, exc |-> CallNext(q).exc]}

\* HybridTraverseQueue.pop: self.next is toggled first, then called
HybridPop(q) ==
  {CallNext([q EXCEPT !.next = IF @ = "pop" THEN "popleft" ELSE "pop"])}

\* Faulty variant of PatternPrioritizingUrlQueue.pop: the oldest priority URL
\* is popped.
PatternPopLeft(q) ==
  IF Len(q.priority_urls) > 0
  THEN {Returns([q EXCEPT !.priority_urls = Tail(@)], Head(q.priority_urls))}
  ELSE RandomPop(q)

\* PatternPrioritizingUrlQueue.pop
PatternPop(q) ==
  IF Len(q.priority_urls) > 0
  THEN {Returns([q EXCEPT !.priority_urls = Front(@)], Last(q.priority_urls))}
  ELSE RandomPop(q)

\* queue.pop(): the set of its possible outcomes
QueuePop(q) ==
  CASE q.cls = "breadth-first" -> FifoPop(q)
    [] q.cls = "random" -> RandomPop(q)
    [] q.cls = "depth-first" -> DepthFirstPop(q)
    [] q.cls = "hybrid" -> HybridPop(q)
    [] q.cls = "pattern" -> PatternPop(q)

\* Faulty variant of len(queue): FifoUrlQueue.__len__ for every class.
QueueLenOfUrls(q) == Len(q.urls)

\* len(queue): FifoUrlQueue.__len__ and PatternPrioritizingUrlQueue.__len__
QueueLen(q) ==
  IF q.cls = "pattern" THEN Len(q.urls) + Len(q.priority_urls) ELSE Len(q.urls)

(***************************************************************************)
(* The URLs and referrers the calls are drawn from.                        *)
(***************************************************************************)
UrlAbout == <<"/", "a", "b", "o", "u", "t">>

UrlBlog1 == <<"/", "b", "l", "o", "g", "/", "1">>

UrlBlog2 == <<"/", "b", "l", "o", "g", "/", "2">>

UrlBlog3 == <<"/", "b", "l", "o", "g", "/", "3">>

UrlXY == <<"/", "x", "/", "y">>

UrlZ == <<"/", "z">>

Urls == {UrlAbout, UrlBlog1, UrlBlog2, UrlBlog3, UrlXY, UrlZ}

\* The calls on one queue draw their arguments from one of these: four URLs
\* passed without a referrer, or two URLs passed with or without one.
InputSets(cls) ==
  {[urls |-> IF cls = "pattern" THEN {UrlAbout, UrlBlog1, UrlBlog2, UrlBlog3}
             ELSE {UrlBlog1, UrlBlog2, UrlXY, UrlZ},
    referrers |-> {None}],
   [urls |-> {UrlBlog1, UrlBlog2}, referrers |-> {None, UrlZ}]}

(***************************************************************************)
(* The web a crawl runs on.  A page is what lxml's iterlinks() gives after *)
(* make_links_absolute: a sequence of (element tag, attribute, absolute    *)
(* link).  Any page can come back from any URL.                            *)
(***************************************************************************)
Http == <<"h", "t", "t", "p", ":", "/", "/">>

SeedUrl == Http \o <<"x", "/", "a">>

ChildUrl == Http \o <<"x", "/", "a", "/", "b">>

SiblingUrl == Http \o <<"x", "/", "c">>

ForeignUrl == Http \o <<"y", "/", "a">>

ImageUrl == Http \o <<"x", "/", "i">>

SeedUrlFragment == SeedUrl \o <<"#", "f">>

WebUrls == {SeedUrl, ChildUrl, SiblingUrl, ForeignUrl, ImageUrl}

AllUrls == Urls \cup WebUrls

IterLink(tag, attr, link) == [tag |-> tag, attr |-> attr, link |-> link]

Links ==
  {IterLink("a", "href", ChildUrl),
   IterLink("a", "href", SiblingUrl),
   IterLink("a", "href", ForeignUrl),
   IterLink("a", "href", SeedUrlFragment),
   IterLink("img", "src", ImageUrl),
   IterLink("form", "action", SiblingUrl)}

Pages == SeqUpTo(Links, MaxLinks)

TextHtml == <<"t", "e", "x", "t", "/", "h", "t", "m", "l">>

\* the content-type header of a response; the empty string for a response
\* without one
ContentTypes ==
  {TextHtml,
   <<"T", "e", "x", "t", "/", "H", "T", "M", "L", ";", "q">>,
   <<"i", "m", "a", "g", "e", "/", "p", "n", "g">>,
   <<>>}

\* The responses to a request of url: location is the content-location
\* header, None for a response without one.
Responses(url) ==
  [content_type : ContentTypes, location : {None, url, SiblingUrl}]

UpperCase ==
  <<"A", "B", "C", "D", "E", "F", "G", "H", "I", "J", "K", "L", "M",
    "N", "O", "P", "Q", "R", "S", "T", "U", "V", "W", "X", "Y", "Z">>

LowerCase ==
  <<"a", "b", "c", "d", "e", "f", "g", "h", "i", "j", "k", "l", "m",
    "n", "o", "p", "q", "r", "s", "t", "u", "v", "w", "x", "y", "z">>

\* s.lower()
StrLower(s) ==
  [i \in DOMAIN s |->
     IF \E k \in DOMAIN UpperCase : UpperCase[k] = s[i]
     THEN LowerCase[CHOOSE k \in DOMAIN UpperCase : UpperCase[k] = s[i]]
     ELSE s[i]]

\* is_html(response)
IsHtml(response) == StartsWith(StrLower(response.content_type), TextHtml)

(***************************************************************************)
(* Spider.filter_links and Spider.get_urls.  spider is the record of the   *)
(* Spider object's opts, base_url and domain.  The accept and reject       *)
(* patterns are literal strings, so that regex.search is a substring       *)
(* search.                                                                 *)
(***************************************************************************)
\* regex.search(link) for a regex without special characters
Search(pattern, link) ==
  \E i \in 0..(Len(link) - Len(pattern)) : SubSeq(link, i + 1, i + Len(pattern)) = pattern

\* path.split('#', 1)[0]
BeforeHash(path) ==
  IF StrFind(path, "#") > 0 THEN Before(path, StrFind(path, "#")) ELSE path

\* the link put together again from its parts, without a fragment
UnsplitLink(parts) ==
  UrlUnsplit(parts.scheme, parts.netloc, BeforeHash(parts.path), parts.query, <<>>)

\* the link as filter_links goes on with it
NormalizedLink(link) == UnsplitLink(UrlSplit(link, FALSE))

RECURSIVE AcceptLoop(_, _, _)
\* for pattern, regex in self.accept: a match clears skip and ends the loop
AcceptLoop(accept, link, skip) ==
  IF Len(accept) = 0 THEN skip
  ELSE IF Search(Head(accept), link) THEN FALSE
  ELSE AcceptLoop(Tail(accept), link, skip)

RECURSIVE RejectLoop(_, _, _)
\* for pattern, regex in self.reject: a match sets skip and ends the loop
RejectLoop(reject, link, skip) ==
  IF Len(reject) = 0 THEN skip
  ELSE IF Search(Head(reject), link) THEN TRUE
  ELSE RejectLoop(Tail(reject), link, skip)

\* Faulty variant of the accept and reject loops: the reject patterns are
\* tried first, so that a matching accept pattern clears skip again.
SkipRejectFirst(spider, link) ==
  AcceptLoop(spider.opts.accept, link,
             RejectLoop(spider.opts.reject, link, Len(spider.opts.accept) > 0))

\* skip, after the accept and reject loops
Skip(spider, link) ==
  RejectLoop(spider.opts.reject, link,
             AcceptLoop(spider.opts.accept, link, Len(spider.opts.accept) > 0))

\* the branches on el.tag: what is yielded for a link that was not skipped
YieldByTag(spider, tag, attr, link) ==
  IF tag = "a"
  THEN IF spider.opts.no_parent /\ ~StartsWith(link, spider.base_url)
       THEN <<>> ELSE <<link>>
  ELSE IF tag = "form" /\ attr = "action" THEN <<>>
  ELSE IF spider.opts.page_requisites THEN <<link>>
  ELSE <<>>

\* Faulty variant of the loop of filter_links: the host is tested only while
\* no accept pattern is configured.
FilterOneAcceptBeforeHost(spider, tag, attr, netloc, link) ==
  IF ~spider.opts.span_hosts /\ Len(spider.opts.accept) = 0 /\ netloc # spider.domain
  THEN <<>>
  ELSE IF Skip(spider, link) THEN <<>>
  ELSE YieldByTag(spider, tag, attr, link)

\* one round of the loop of filter_links: what it yields for one link, of
\* which netloc is urlsplit's and link the normalized link
FilterOne(spider, tag, attr, netloc, link) ==
  IF ~spider.opts.span_hosts /\ netloc # spider.domain THEN <<>>
  ELSE IF Skip(spider, link) THEN <<>>
  ELSE YieldByTag(spider, tag, attr, link)

RECURSIVE FilterUnseen(_, _, _)
\* the loop of filter_links, were it to yield no link a second time
FilterUnseen(spider, links, seen) ==
  IF Len(links) = 0 THEN <<>>
  ELSE SelectSeq(FilterOne(spider, Head(links).tag, Head(links).attr,
                           UrlSplit(Head(links).link, FALSE).netloc,
                           NormalizedLink(Head(links).link)),
                 LAMBDA u : u \notin seen)
       \o FilterUnseen(spider, Tail(links),
                       seen \cup {NormalizedLink(Head(links).link)})

\* Faulty variant of Spider.filter_links: every link is yielded once only.
FilterLinksOnce(spider, links) == FilterUnseen(spider, links, {})

RECURSIVE FilterLinks(_, _)
\* Spider.filter_links, as the list of what it yields
FilterLinks(spider, links) ==
  IF Len(links) = 0 THEN <<>>
  ELSE FilterOne(spider, Head(links).tag, Head(links).attr,
                 UrlSplit(Head(links).link, FALSE).netloc,
                 NormalizedLink(Head(links).link))
       \o FilterLinks(spider, Tail(links))

\* Spider.get_urls; data is the page with its links made absolute on url
GetUrls(spider, url, response, data) ==
  IF IsHtml(response) THEN FilterLinks(spider, data) ELSE <<>>

\* the test of the stop condition in crawl
StopAfterExceeded(max_requests, fetchcount) ==
  max_requests # 0 /\ fetchcount > max_requests

\* if self.opts.max_requests and self.fetchcount >= self.opts.max_requests
StopAfter(max_requests, fetchcount) ==
  max_requests # 0 /\ fetchcount >= max_requests

\* The filter options of a crawl.
FilterOpts ==
  {[span_hosts |-> FALSE, no_parent |-> FALSE, page_requisites |-> FALSE,
    accept |-> <<>>, reject |-> <<>>],
   [span_hosts |-> TRUE, no_parent |-> TRUE, page_requisites |-> TRUE,
    accept |-> <<>>, reject |-> <<>>],
   [span_hosts |-> FALSE, no_parent |-> FALSE, page_requisites |-> TRUE,
    accept |-> <<<<"/", "a">>, <<"/", "i">>>>, reject |-> <<<<"b">>>>]}

\* The options a crawl can be started with.
Configs ==
  {[traversal |-> t, recursive |-> r, max_requests |-> n,
    span_hosts |-> f.span_hosts, no_parent |-> f.no_parent,
    page_requisites |-> f.page_requisites, accept |-> f.accept, reject |-> f.reject] :
     t \in QueueTypes, r \in BOOLEAN, n \in 0..MaxRequests, f \in FilterOpts}

(***************************************************************************)
(* State: the queue object, the outcome of the last call on it, and the    *)
(* history of the calls (what was passed in, what was returned).           *)
(***************************************************************************)
VARIABLES
  inputs,       \* the URLs and referrers the calls draw their arguments from; the
                \* batch of links of a call of filter_links
  queue,        \* the queue object
  ret,          \* the value the last call returned (None when it raised)
  exc,          \* the exception the last call raised, "" when it returned
  arrival,      \* history: the distinct URLs passed in, in the order of the calls
  firstref,     \* history: the referrer passed with each URL's first occurrence
  inserted,     \* history: the URLs that entered queue.urls, in that order
  insertedPri,  \* history: the URLs that entered queue.priority_urls, in that order
  entered,      \* history: how many times each URL entered the pending URLs
  popped,       \* history: the URLs pop() returned, in that order
  popcalls,     \* history: the parity of the number of pop() calls on a hybrid queue
  repassed,     \* history: a URL was passed in again after pop() had returned it
  rereferred,   \* history: a URL was passed in again with another referrer
  pc,           \* where crawl() is: "loop", "fetch", "done", "error"; "idle" without a
                \* crawl; "call", "returned", "extended" around a call of filter_links
  opts,         \* Spider.opts
  base_url,     \* Spider.base_url
  domain,       \* Spider.domain
  fetchcount,   \* Spider.fetchcount
  url,          \* the local url of crawl()
  fetches,      \* history: the URLs whose request returned a response, in that order
  abandoned     \* history: the URLs whose request found no connection, in that order

queuevars == <<queue, ret, exc, arrival, firstref, inserted, insertedPri, entered,
               popped, popcalls, repassed, rereferred>>

crawlvars == <<pc, opts, base_url, domain, fetchcount, url, fetches, abandoned>>

vars == <<inputs, queuevars, crawlvars>>

\* the pending URLs of a queue, over all its partitions
Pending(q) == IF q.cls = "pattern" THEN q.priority_urls \o q.urls ELSE q.urls

PriorityUrls(q) == IF q.cls = "pattern" THEN q.priority_urls ELSE <<>>

Occurrences(s, x) == Cardinality({i \in DOMAIN s : s[i] = x})

NewSuffix(old, new) == SubSeq(new, Len(old) + 1, Len(new))

RECURSIVE FirstOccurrences(_, _)
\* the elements of urls that are not in seen, each once, in order
FirstOccurrences(urls, seen) ==
  IF Len(urls) = 0 THEN <<>>
  ELSE IF Head(urls) \in seen THEN FirstOccurrences(Tail(urls), seen)
  ELSE <<Head(urls)>> \o FirstOccurrences(Tail(urls), seen \cup {Head(urls)})

\* The history of a call that passes urls in with a referrer: what was
\* passed, and what the call made of the pending URLs.
PassedIn(urls, referrer) ==
  /\ arrival' = arrival \o FirstOccurrences(urls, Range(arrival))
  /\ firstref' = [u \in DOMAIN firstref \cup Range(urls) |->
                    IF u \in DOMAIN firstref THEN firstref[u] ELSE referrer]
  /\ inserted' = inserted \o NewSuffix(queue.urls, queue'.urls)
  /\ insertedPri' = insertedPri \o NewSuffix(PriorityUrls(queue), PriorityUrls(queue'))
  /\ entered' = [u \in AllUrls |->
                   entered[u] + Occurrences(Pending(queue'), u)
                              - Occurrences(Pending(queue), u)]
  /\ repassed' = (repassed \/ \E u \in Range(urls) : u \in Range(popped))
  /\ rereferred' = (rereferred \/ \E u \in Range(urls) :
                                     u \in DOMAIN firstref /\ firstref[u] # referrer)

\* a call of queue.append(url, referrer)
CallAppend(u, referrer) ==
  /\ queue' = QueueAppend(queue, u, referrer)
  /\ ret' = None
  /\ exc' = ""
  /\ PassedIn(<<u>>, referrer)
  /\ UNCHANGED <<popped, popcalls>>

\* a call of queue.extend(urls, referrer)
CallExtend(urls, referrer) ==
  /\ queue' \in QueueExtend(queue, urls, referrer)
  /\ ret' = None
  /\ exc' = ""
  /\ PassedIn(urls, referrer)
  /\ UNCHANGED <<popped, popcalls>>

\* a call of queue.pop()
CallPop ==
  \E o \in QueuePop(queue) :
     /\ queue' = o.queue
     /\ ret' = o.ret
     /\ exc' = o.exc
     /\ popped' = IF o.exc = "" THEN Append(popped, o.ret) ELSE popped
     /\ popcalls' = IF queue.cls = "hybrid" THEN 1 - popcalls ELSE popcalls
     /\ UNCHANGED <<arrival, firstref, inserted, insertedPri, entered,
                    repassed, rereferred>>

(***************************************************************************)
(* Spec: a queue of any class, under any sequence of append, extend and    *)
(* pop calls.                                                              *)
(***************************************************************************)
Init ==
  /\ \E cls \in QueueTypes :
       /\ queue = NewQueue(cls)
       /\ inputs \in InputSets(cls)
  /\ ret = None
  /\ exc = ""
  /\ arrival = <<>>
  /\ firstref = EmptyDict
  /\ inserted = <<>>
  /\ insertedPri = <<>>
  /\ entered = [u \in AllUrls |-> 0]
  /\ popped = <<>>
  /\ popcalls = 0
  /\ repassed = FALSE
  /\ rereferred = FALSE
  /\ pc = "idle"
  /\ opts = None
  /\ base_url = None
  /\ domain = None
  /\ fetchcount = 0
  /\ url = None
  /\ fetches = <<>>
  /\ abandoned = <<>>

DoAppend ==
  /\ \E u \in inputs.urls, referrer \in inputs.referrers : CallAppend(u, referrer)
  /\ UNCHANGED <<inputs, crawlvars>>

DoExtend ==
  /\ \E urls \in SeqUpTo(inputs.urls, MaxBatch), referrer \in inputs.referrers :
       CallExtend(urls, referrer)
  /\ UNCHANGED <<inputs, crawlvars>>

DoPop == CallPop /\ UNCHANGED <<inputs, crawlvars>>

Next == DoAppend \/ DoExtend \/ DoPop

Spec == Init /\ [][Next]_vars

(***************************************************************************)
(* SpecCrawl: Spider.__init__ and Spider.crawl.  One step pops the next    *)
(* URL; the next step is the outcome of http.request for it and the rest   *)
(* of the round of the loop.  opts.profile is off (its default), and the   *)
(* waits of sleep() take no part.                                          *)
(***************************************************************************)
NoInputs == [urls |-> {}, referrers |-> {}]

Self == [opts |-> opts, base_url |-> base_url, domain |-> domain]

\* Spider.__init__(url, opts) with url the seed
InitCrawl ==
  /\ inputs = NoInputs
  /\ opts \in Configs
  /\ base_url = SeedUrl
  /\ domain = UrlSplit(SeedUrl, TRUE).netloc
  /\ queue = QueueAppend(NewQueue(opts.traversal), SeedUrl, None)
  /\ ret = None
  /\ exc = ""
  /\ arrival = <<SeedUrl>>
  /\ firstref = DictPut(EmptyDict, SeedUrl, None)
  /\ inserted = queue.urls
  /\ insertedPri = PriorityUrls(queue)
  /\ entered = [u \in AllUrls |-> Occurrences(Pending(queue), u)]
  /\ popped = <<>>
  /\ popcalls = 0
  /\ repassed = FALSE
  /\ rereferred = FALSE
  /\ pc = "loop"
  /\ fetchcount = 0
  /\ url = None
  /\ fetches = <<>>
  /\ abandoned = <<>>

\* while self.queue: url = self.queue.pop()
CrawlPop ==
  /\ pc = "loop"
  /\ QueueLen(queue) > 0
  /\ CallPop
  /\ pc' = IF exc' = "" THEN "fetch" ELSE "error"
  /\ url' = IF exc' = "" THEN ret' ELSE url
  /\ UNCHANGED <<inputs, opts, base_url, domain, fetchcount, fetches, abandoned>>

\* while self.queue: the queue is empty, and crawl() returns
CrawlExit ==
  /\ pc = "loop"
  /\ QueueLen(queue) = 0
  /\ pc' = "done"
  /\ UNCHANGED <<inputs, queuevars, opts, base_url, domain, fetchcount, url, fetches,
                 abandoned>>

\* Faulty variant of the except clause: the URL is put back for another try.
FetchNoConnectionRetries ==
  /\ pc = "fetch"
  /\ pc' = "loop"
  /\ queue' = [queue EXCEPT !.urls = Append(@, url)]
  /\ abandoned' = Append(abandoned, url)
  /\ UNCHANGED <<inputs, ret, exc, arrival, firstref, inserted, insertedPri, entered,
                 popped, popcalls, repassed, rereferred,
                 opts, base_url, domain, fetchcount, url, fetches>>

\* http.request raises AttributeError (no connection): except ... continue
FetchNoConnection ==
  /\ pc = "fetch"
  /\ pc' = "loop"
  /\ abandoned' = Append(abandoned, url)
  /\ UNCHANGED <<inputs, queuevars, opts, base_url, domain, fetchcount, url, fetches>>

\* http.request raises any other exception, which nothing catches
FetchRaises ==
  /\ pc = "fetch"
  /\ pc' = "error"
  /\ exc' = "socket.error"
  /\ UNCHANGED <<inputs, queue, ret, arrival, firstref, inserted, insertedPri, entered,
                 popped, popcalls, repassed, rereferred,
                 opts, base_url, domain, fetchcount, url, fetches, abandoned>>

\* if response.has_key('content-location'): url = response['content-location']
EffectiveUrl(requested, response) ==
  IF response.location # None THEN response.location ELSE requested

\* Faulty variant of crawl(): the links are taken from every response, also
\* when opts.recursive is off.
AfterFetchAlwaysRecursive(response, data, newurl) ==
  /\ url' = newurl
  /\ IF StopAfter(opts.max_requests, fetchcount')
     THEN /\ pc' = "done"
          /\ UNCHANGED queuevars
     ELSE /\ CallExtend(GetUrls(Self, newurl, response, data), newurl)
          /\ pc' = "loop"

\* Faulty variant of crawl(): the links are passed to the queue with the
\* requested URL as their referrer.
AfterFetchRequestedReferrer(response, data, newurl) ==
  /\ url' = newurl
  /\ IF StopAfter(opts.max_requests, fetchcount')
     THEN /\ pc' = "done"
          /\ UNCHANGED queuevars
     ELSE IF opts.recursive
     THEN /\ CallExtend(GetUrls(Self, newurl, response, data), url)
          /\ pc' = "loop"
     ELSE /\ pc' = "loop"
          /\ UNCHANGED queuevars

\* crawl() from the content-location on, newurl being the url it goes on with
AfterFetch(response, data, newurl) ==
  /\ url' = newurl
  /\ IF StopAfter(opts.max_requests, fetchcount')
     THEN /\ pc' = "done"
          /\ UNCHANGED queuevars
     ELSE IF opts.recursive
     THEN /\ CallExtend(GetUrls(Self, newurl, response, data), newurl)
          /\ pc' = "loop"
     ELSE /\ pc' = "loop"
          /\ UNCHANGED queuevars

\* http.request returns: fetch_one counts the fetch, and crawl() goes on
FetchReturns ==
  /\ pc = "fetch"
  /\ fetchcount' = fetchcount + 1
  /\ fetches' = Append(fetches, url)
  /\ \E response \in Responses(url), data \in Pages :
       AfterFetch(response, data, EffectiveUrl(url, response))
  /\ UNCHANGED <<inputs, opts, base_url, domain, abandoned>>

NextCrawl == CrawlPop \/ CrawlExit \/ FetchNoConnection \/ FetchRaises \/ FetchReturns

SpecCrawl == InitCrawl /\ [][NextCrawl]_vars

\* The crawl as it runs: crawl() is sequential code that goes on with its next
\* statement, and a request returns or raises in the end.
SpecCrawlFair == SpecCrawl /\ WF_vars(NextCrawl)

(***************************************************************************)
(* SpecFilter: one call of Spider.filter_links, on any batch of links and  *)
(* under any of the filter options, and the call of queue.extend with what *)
(* it yields, on the queue as Spider.__init__ leaves it.  inputs is the    *)
(* batch, ret the list of what filter_links yields.                        *)
(***************************************************************************)
\* the --accept options a call is checked with
AcceptLists ==
  {<<>>,
   <<<<"/", "a">>>>,
   <<<<"/", "a">>, <<"/", "i">>>>,
   <<<<"/", "i">>, <<"/", "a">>>>}

\* the --reject options a call is checked with
RejectLists ==
  {<<>>,
   <<<<"b">>>>,
   <<<<"b">>, <<"/", "c">>>>,
   <<<<"/", "c">>, <<"b">>>>}

FilterConfigs ==
  [span_hosts : BOOLEAN, no_parent : BOOLEAN, page_requisites : BOOLEAN,
   accept : AcceptLists, reject : RejectLists]

\* the links of a batch: those of the web, and a plain link to the seed
BatchLinks == Links \cup {IterLink("a", "href", SeedUrl)}

Batches == SeqUpTo(BatchLinks, MaxLinks)

InitFilter ==
  /\ inputs \in Batches
  /\ opts \in FilterConfigs
  /\ base_url = SeedUrl
  /\ domain = UrlSplit(SeedUrl, TRUE).netloc
  /\ queue = QueueAppend(NewQueue("breadth-first"), SeedUrl, None)
  /\ ret = None
  /\ exc = ""
  /\ arrival = <<SeedUrl>>
  /\ firstref = DictPut(EmptyDict, SeedUrl, None)
  /\ inserted = queue.urls
  /\ insertedPri = PriorityUrls(queue)
  /\ entered = [u \in AllUrls |-> Occurrences(Pending(queue), u)]
  /\ popped = <<>>
  /\ popcalls = 0
  /\ repassed = FALSE
  /\ rereferred = FALSE
  /\ pc = "call"
  /\ fetchcount = 0
  /\ url = None
  /\ fetches = <<>>
  /\ abandoned = <<>>

\* list(self.filter_links(links))
CallFilterLinks ==
  /\ pc = "call"
  /\ ret' = FilterLinks(Self, inputs)
  /\ pc' = "returned"
  /\ UNCHANGED <<inputs, queue, exc, arrival, firstref, inserted, insertedPri, entered,
                 popped, popcalls, repassed, rereferred,
                 opts, base_url, domain, fetchcount, url, fetches, abandoned>>

\* self.queue.extend(urls, referrer=url) with what filter_links yielded
ExtendWithYield ==
  /\ pc = "returned"
  /\ CallExtend(ret, base_url)
  /\ pc' = "extended"
  /\ UNCHANGED <<inputs, opts, base_url, domain, fetchcount, url, fetches, abandoned>>

NextFilter == CallFilterLinks \/ ExtendWithYield

SpecFilter == InitFilter /\ [][NextFilter]_vars

(***************************************************************************)
(* Properties of the queues, checked under Spec.                           *)
(***************************************************************************)
\* the URLs passed to append or extend so far
Passed == Range(arrival)

\* the seq without the URLs pop() has returned
Unpopped(seq) == SelectSeq(seq, LAMBDA u : u \notin Range(popped))

\* a step in which pop() returned a URL
PopReturned == Len(popped') = Len(popped) + 1

\* a step of a pop() call on a queue with no pending URL: only pop() raises
\* or returns a URL
PopOnEmpty == Len(Pending(queue)) = 0 /\ (exc' # "" \/ PopReturned)

\* the last URL of seq that pop() has not returned is u
LastUnpoppedIs(seq, u) == Len(Unpopped(seq)) > 0 /\ Last(Unpopped(seq)) = u

\* the first URL of seq that pop() has not returned is u
FirstUnpoppedIs(seq, u) == Len(Unpopped(seq)) > 0 /\ Head(Unpopped(seq)) = u

\* what removing the head, the tail, or some element of a partition does
HeadRemoved(old, new) == Len(old) > 0 /\ ret' = Head(old) /\ new = Tail(old)

TailRemoved(old, new) == Len(old) > 0 /\ ret' = Last(old) /\ new = Front(old)

SomeRemoved(old, new) == \E i \in DOMAIN old : ret' = old[i] /\ new = RemoveAt(old, i)

\* C1: in every queue class and after any calls of append, extend and pop,
\* known_urls has as many elements as distinct URLs were passed in (it is
\* the set of them), however often each was passed, and no step (a pop
\* included) takes a URL out of known_urls.
C1_KnownSetIsWhatWasPassed ==
  /\ [](/\ Cardinality(queue.known_urls) = Cardinality(Passed)
        /\ queue.known_urls = Passed)
  /\ [][queue.known_urls \subseteq queue'.known_urls]_vars

\* C1 witness: three distinct URLs are known, one of them was passed in again
\* after pop() had returned it, and nothing is pending any more.
C1_Witness ==
  /\ Cardinality(queue.known_urls) = 3
  /\ repassed
  /\ Len(popped) = 3
  /\ Len(Pending(queue)) = 0

\* C2: in every queue class, a URL enters the pending URLs exactly once, on
\* the first call that passes it (passing it again, also after it was
\* popped, adds nothing), and pop() returns it at most once: the pending URLs
\* hold no URL twice, pop() returned no URL twice, and every URL passed in is
\* either pending or was returned by pop(), never both.
C2_EntersOnceLeavesOnce ==
  \A u \in Urls :
    /\ entered[u] = IF u \in Passed THEN 1 ELSE 0
    /\ Occurrences(Pending(queue), u) <= 1
    /\ Occurrences(popped, u) <= 1
    /\ Occurrences(Pending(queue), u) + Occurrences(popped, u) = entered[u]

\* C2 witness: a URL that pop() had returned was passed in again, and it is
\* not pending, while another URL is.
C2_Witness ==
  /\ repassed
  /\ Len(popped) >= 1
  /\ Len(Pending(queue)) >= 1
  /\ \A u \in Range(popped) : u \notin Range(Pending(queue))

\* C3 as claimed: on a hybrid queue the pop() calls alternate between
\* removing the tail and removing the head, and the first one since the
\* construction of the queue removes the tail.
C3_TailFirst ==
  [][(queue.cls = "hybrid" /\ PopReturned) =>
       IF popcalls = 0 THEN TailRemoved(queue.urls, queue'.urls)
       ELSE HeadRemoved(queue.urls, queue'.urls)]_vars

\* C3 amended: on a hybrid queue the pop() calls alternate between removing
\* the head and removing the tail, the first call since the construction of
\* the queue removes the head, and every call counts, one that raised on an
\* empty queue too; the URLs come out of queue.urls, which holds the pending
\* URLs in the order they were inserted.
C3_HeadFirst ==
  /\ [](queue.cls = "hybrid" => queue.urls = Unpopped(inserted))
  /\ [][(queue.cls = "hybrid" /\ PopReturned) =>
          IF popcalls = 0 THEN HeadRemoved(queue.urls, queue'.urls)
          ELSE TailRemoved(queue.urls, queue'.urls)]_vars

\* C3 witness: four URLs a, b, c, d were inserted in this order and four
\* pop() calls returned a, d, b, c.
C3_Witness ==
  /\ queue.cls = "hybrid"
  /\ inserted = <<UrlBlog1, UrlBlog2, UrlXY, UrlZ>>
  /\ popped = <<UrlBlog1, UrlZ, UrlBlog2, UrlXY>>
  /\ popcalls = 0

\* C4: on a breadth-first queue the URLs are inserted in the order they are
\* first passed in, and pop() always returns the pending URL inserted
\* earliest: what pop() returned so far, followed by what is pending, is the
\* sequence of the URLs in the order of their first insertion.
C4_FifoOrder ==
  /\ [](queue.cls = "breadth-first" =>
          /\ inserted = arrival
          /\ popped \o queue.urls = inserted)
  /\ [][(queue.cls = "breadth-first" /\ PopReturned) =>
          /\ FirstUnpoppedIs(inserted, ret')
          /\ HeadRemoved(queue.urls, queue'.urls)]_vars

\* C4 witness: pop() returned three URLs, in an order that is not that of
\* their depth, a fourth URL is pending, and a pop was followed by an insertion.
C4_Witness ==
  /\ queue.cls = "breadth-first"
  /\ popped = <<UrlXY, UrlZ, UrlBlog1>>
  /\ queue.urls = <<UrlBlog2>>
  /\ ret = None

\* s holds the URLs of batch, by ascending number of slashes, those with
\* equally many in the order they have in batch
AscendingByDepth(s, batch) ==
  /\ Len(s) = Len(batch)
  /\ Range(s) = Range(batch)
  /\ \A i, j \in DOMAIN s :
       i < j => \/ StrCount(s[i], "/") < StrCount(s[j], "/")
                \/ /\ StrCount(s[i], "/") = StrCount(s[j], "/")
                   /\ \E k, l \in DOMAIN batch : k < l /\ batch[k] = s[i] /\ batch[l] = s[j]

\* C5: on a depth-first queue a call inserts the new URLs it is passed by
\* ascending depth (number of slashes), those of equal depth in the order of
\* the batch, and pop() always returns the pending URL inserted last.
C5_DepthFirstOrder ==
  /\ [](queue.cls = "depth-first" => queue.urls = Unpopped(inserted))
  /\ [][queue.cls = "depth-first" =>
          /\ AscendingByDepth(NewSuffix(inserted, inserted'), NewSuffix(arrival, arrival'))
          /\ PopReturned =>
               /\ LastUnpoppedIs(inserted, ret')
               /\ TailRemoved(queue.urls, queue'.urls)]_vars

\* C5 witness: the batch ["/x/y", "/z"] was passed to an empty queue, "/z"
\* was inserted first, and two pop() calls returned "/x/y" and then "/z".
C5_Witness ==
  /\ queue.cls = "depth-first"
  /\ arrival = <<UrlXY, UrlZ>>
  /\ inserted = <<UrlZ, UrlXY>>
  /\ popped = <<UrlXY, UrlZ>>

\* C5 second case: three URLs of equal depth a, b, c come out as c, b, a.
C5_EqualDepthCase ==
  /\ queue.cls = "depth-first"
  /\ inserted = <<UrlBlog1, UrlBlog2, UrlXY>>
  /\ popped = <<UrlXY, UrlBlog2, UrlBlog1>>

\* the known URLs classified to the pattern of u
SamePattern(q, u) == {v \in q.known_urls : MakePattern(v) = MakePattern(u)}

\* C6: on a pattern queue every known URL went to exactly one partition; of
\* the known URLs of one pattern exactly one ever went to the priority
\* partition; and a call that makes one URL known puts it in the priority
\* partition if and only if no URL known before has its pattern.
C6_PriorityIffNewPattern ==
  /\ [](queue.cls = "pattern" =>
          \A u \in queue.known_urls :
            /\ Occurrences(insertedPri, u) + Occurrences(inserted, u) = 1
            /\ Cardinality(SamePattern(queue, u) \cap Range(insertedPri)) = 1)
  /\ [][queue.cls = "pattern" =>
          \A u \in Urls :
            queue'.known_urls = queue.known_urls \cup {u} /\ u \notin queue.known_urls
              => (u \in Range(insertedPri') <=> SamePattern(queue, u) = {})]_vars

\* C6 witness: /blog/1, /blog/2 and /about were passed in this order; /blog/1
\* and /about went to the priority partition, /blog/2 to the other one.
C6_Witness ==
  /\ queue.cls = "pattern"
  /\ arrival = <<UrlBlog1, UrlBlog2, UrlAbout>>
  /\ insertedPri = <<UrlBlog1, UrlAbout>>
  /\ inserted = <<UrlBlog2>>
  /\ queue.priority_urls = <<UrlBlog1, UrlAbout>>
  /\ queue.urls = <<UrlBlog2>>

\* C7: on a pattern queue, pop() with a non-empty priority partition removes
\* and returns its tail, the priority URL inserted last, and leaves the
\* low-priority URLs alone; with an empty priority partition it removes and
\* returns one of the low-priority URLs.
C7_PriorityFirst ==
  /\ [](queue.cls = "pattern" => queue.priority_urls = Unpopped(insertedPri))
  /\ [][(queue.cls = "pattern" /\ PopReturned) =>
          IF Len(queue.priority_urls) > 0
          THEN /\ LastUnpoppedIs(insertedPri, ret')
               /\ TailRemoved(queue.priority_urls, queue'.priority_urls)
               /\ queue'.urls = queue.urls
          ELSE /\ SomeRemoved(queue.urls, queue'.urls)
               /\ queue'.priority_urls = queue.priority_urls]_vars

\* C7 witness: after the priority URL, pop() has just returned the first of
\* two low-priority URLs, leaving the one inserted after it.
C7_Witness ==
  /\ queue.cls = "pattern"
  /\ insertedPri = <<UrlBlog1>>
  /\ inserted = <<UrlBlog2, UrlBlog3>>
  /\ popped = <<UrlBlog1, UrlBlog2>>
  /\ ret = UrlBlog2
  /\ queue.urls = <<UrlBlog3>>

\* the state of a queue but for its pop policy (HybridTraverseQueue.next)
SameButNext(q1, q2) ==
  /\ q1.cls = q2.cls
  /\ q1.urls = q2.urls
  /\ q1.known_urls = q2.known_urls
  /\ q1.referrers = q2.referrers
  /\ q1.cls = "pattern" => /\ q1.priority_urls = q2.priority_urls
                           /\ q1.known_patterns = q2.known_patterns

\* C8 as claimed: in every queue class a pop() with nothing pending raises an
\* exception, returns no URL, and leaves the whole queue as it was, the pop
\* policy included.
C8_FailedPopChangesNothing ==
  [][PopOnEmpty =>
       /\ exc' \in {"IndexError", "ValueError"}
       /\ ~PopReturned
       /\ queue' = queue]_vars

\* C8 amended: in every queue class a pop() with nothing pending raises an
\* exception and returns no URL; it leaves the pending URLs, known_urls, the
\* referrers and the patterns as they were; on a hybrid queue it still
\* toggles self.next, like every pop() call, and on the other classes it
\* leaves the whole queue as it was.
C8_FailedPopKeepsUrls ==
  [][PopOnEmpty =>
       /\ exc' \in {"IndexError", "ValueError"}
       /\ ret' = None
       /\ ~PopReturned
       /\ SameButNext(queue, queue')
       /\ IF queue.cls = "hybrid" THEN queue'.next # queue.next ELSE queue' = queue]_vars

\* C8 witness: a pop() has just raised, on a queue that had URLs before.
C8_Witness ==
  /\ exc # ""
  /\ ret = None
  /\ Len(popped) >= 2
  /\ Len(Pending(queue)) = 0

\* C9: in every queue class the referrers map holds, for exactly the known
\* URLs, the referrer passed by the call that first passed the URL in, and no
\* step changes or removes an entry.
C9_FirstReferrerKept ==
  /\ [](/\ DOMAIN queue.referrers = queue.known_urls
        /\ queue.referrers = firstref)
  /\ [][\A u \in DOMAIN queue.referrers :
          /\ u \in DOMAIN queue'.referrers
          /\ queue'.referrers[u] = queue.referrers[u]]_vars

\* C9 witness: a URL was passed in again with another referrer, one of the
\* known URLs was first passed with a referrer and one without, and a pop()
\* has returned a URL.
C9_Witness ==
  /\ rereferred
  /\ \E u, v \in queue.known_urls : queue.referrers[u] = None /\ queue.referrers[v] = UrlZ
  /\ Len(popped) >= 1

(***************************************************************************)
(* Properties of the crawl, checked under SpecCrawl.                       *)
(***************************************************************************)
\* the step in which the N-th request of a crawl limited to N returns
NthFetchReturns ==
  /\ opts.max_requests > 0
  /\ Len(fetches) = opts.max_requests - 1
  /\ Len(fetches') = opts.max_requests

\* C10: in a crawl with max_requests = N > 0 the fetch count never exceeds N
\* and counts exactly the requests that returned (an abandoned connection
\* failure is not counted); the step in which the N-th request returns ends
\* the crawl without an error, with the queue as it was (nothing is taken
\* from the N-th response), and nothing happens after the crawl has ended.
C10_StopsAtMaxRequests ==
  /\ [](opts.max_requests > 0 =>
          /\ fetchcount <= opts.max_requests
          /\ fetchcount = Len(fetches)
          /\ fetchcount = opts.max_requests => pc = "done" /\ exc = "")
  /\ [][NthFetchReturns =>
          /\ pc' = "done"
          /\ exc' = ""
          /\ queue' = queue
          /\ arrival' = arrival]_vars
  /\ [][pc = "done" => UNCHANGED vars]_vars

\* C10: a crawl limited to two requests has ended after the second response,
\* having popped three URLs of which one was abandoned for a connection failure
C10_Witness ==
  /\ pc = "done"
  /\ exc = ""
  /\ opts.max_requests = 2
  /\ opts.recursive
  /\ fetchcount = 2
  /\ Len(popped) = 3
  /\ Len(fetches) = 2

\* the step in which the request of the popped URL finds no connection
ConnectionFails == Len(abandoned') = Len(abandoned) + 1

\* C11: a connection failure does not end the crawl: the step leaves the fetch
\* count, the queue and what was passed to it as they were, raises nothing
\* and goes back to the loop test; an abandoned URL is never pending again,
\* was popped once and is never the URL of a later request; and from the loop
\* test the crawl pops the next pending URL, or ends normally when none is left.
C11_ConnectionFailureSkipsUrl ==
  /\ [][ConnectionFails =>
          /\ pc' = "loop"
          /\ exc' = ""
          /\ fetchcount' = fetchcount
          /\ fetches' = fetches
          /\ queue' = queue
          /\ arrival' = arrival
          /\ popped' = popped]_vars
  /\ [](\A u \in Range(abandoned) :
          /\ u \notin Range(Pending(queue))
          /\ u \notin Range(fetches)
          /\ Occurrences(popped, u) = 1
          /\ Occurrences(abandoned, u) = 1
          /\ entered[u] = 1
          /\ pc = "fetch" => url # u)
  /\ [][pc = "loop" =>
          IF Len(Pending(queue)) > 0
          THEN pc' = "fetch" /\ exc' = "" /\ PopReturned /\ url' = ret'
          ELSE pc' = "done" /\ exc' = "" /\ popped' = popped]_vars

\* C11: a crawl has ended normally after the request of the child URL found no
\* connection, the crawl went on to fetch the sibling URL, and a URL that had
\* been popped before was passed to the queue again
C11_Witness ==
  /\ pc = "done"
  /\ exc = ""
  /\ opts.max_requests = 0
  /\ abandoned = <<ChildUrl>>
  /\ fetches = <<SeedUrl, SiblingUrl>>
  /\ popped = <<SeedUrl, ChildUrl, SiblingUrl>>
  /\ repassed

(***************************************************************************)
(* Properties of filter_links, checked under SpecFilter.                   *)
(***************************************************************************)
\* a link passes the steps of the filter other than the accept/reject step
PassesOtherSteps(l) ==
  /\ opts.span_hosts \/ UrlSplit(l.link, FALSE).netloc = domain
  /\ \/ l.tag = "a" /\ (opts.no_parent => StartsWith(NormalizedLink(l.link), base_url))
     \/ l.tag # "a" /\ ~(l.tag = "form" /\ l.attr = "action") /\ opts.page_requisites

\* a link survives accept patterns A and reject patterns R, taken as sets
Survives(A, R, link) ==
  /\ A = {} \/ \E a \in A : Search(a, link)
  /\ \A r \in R : ~Search(r, link)

\* the links of a batch that a predicate holds of, normalized, in their order
Kept(links, Keep(_)) ==
  [i \in 1..Len(SelectSeq(links, Keep)) |-> NormalizedLink(SelectSeq(links, Keep)[i].link)]

KeptBySets(l) ==
  /\ PassesOtherSteps(l)
  /\ Survives(Range(opts.accept), Range(opts.reject), NormalizedLink(l.link))

\* the options with the accept and reject patterns in another order
Reordered(accept, reject) == [opts EXCEPT !.accept = accept, !.reject = reject]

\* C12: what filter_links yields is the links that pass its other steps and
\* for which (no accept pattern is configured or one matches) and no reject
\* pattern matches; the accept and reject patterns count as sets, so a link
\* that matches both is rejected, and every other order of the patterns gives
\* the same result.
C12_AcceptRejectAsSets ==
  pc = "returned" =>
    /\ ret = Kept(inputs, KeptBySets)
    /\ \A accept \in AcceptLists, reject \in RejectLists :
         (Range(accept) = Range(opts.accept) /\ Range(reject) = Range(opts.reject))
           => FilterLinks([opts |-> Reordered(accept, reject), base_url |-> base_url,
                           domain |-> domain], inputs) = ret

\* C12: a call with two accept and two reject patterns was given a link that
\* matches an accept and a reject pattern and a link that matches only an
\* accept pattern, and yielded only the second
C12_Witness ==
  /\ pc = "returned"
  /\ Len(opts.accept) = 2
  /\ Len(opts.reject) = 2
  /\ ~opts.span_hosts /\ ~opts.no_parent /\ opts.page_requisites
  /\ inputs = <<IterLink("a", "href", ChildUrl), IterLink("img", "src", ImageUrl)>>
  /\ Search(<<"/", "a">>, ChildUrl) /\ Search(<<"b">>, ChildUrl)
  /\ ret = <<ImageUrl>>

\* the host of the seed URL
SeedHost == <<"x">>

\* the host of an absolute URL
HostOf(u) == UrlSplit(u, TRUE).netloc

\* C13: while span_hosts is off, every link filter_links yields has the host
\* of the seed URL, whatever the other options and the tags of the links are,
\* and so has every URL the queue knows after the links were passed to it.
C13_NoForeignHost ==
  ~opts.span_hosts =>
    /\ pc = "returned" => \A i \in DOMAIN ret : HostOf(ret[i]) = SeedHost
    /\ \A u \in queue.known_urls \cup Range(Pending(queue)) \cup Range(arrival) :
         HostOf(u) = SeedHost

\* C13: with span_hosts off and an accept pattern that matches it, a link to
\* a foreign host was in the batch with a link to the seed's host, and only
\* the second was yielded and passed to the queue
C13_Witness ==
  /\ pc = "extended"
  /\ ~opts.span_hosts
  /\ opts.accept = <<<<"/", "a">>>>
  /\ opts.reject = <<>>
  /\ Search(<<"/", "a">>, ForeignUrl)
  /\ inputs = <<IterLink("a", "href", ForeignUrl), IterLink("a", "href", ChildUrl)>>
  /\ queue.known_urls = {SeedUrl, ChildUrl}
  /\ Pending(queue) = <<SeedUrl, ChildUrl>>

\* C13 in a crawl: while span_hosts is off, every URL that was ever passed to
\* the queue, is pending or was popped has the host of the seed URL
C13_CrawlKeepsHost ==
  ~opts.span_hosts =>
    \A u \in queue.known_urls \cup Range(Pending(queue)) \cup Range(arrival)
             \cup Range(popped) : HostOf(u) = SeedHost

\* the places of a batch whose link is kept and is u once normalized
KeptAs(u) ==
  {i \in DOMAIN inputs :
     KeptBySets(inputs[i]) /\ NormalizedLink(inputs[i].link) = u}

\* the batch holds the seed URL with a fragment and without, both admissible
FragmentTwins ==
  /\ \E i \in KeptAs(SeedUrl) : inputs[i].link = SeedUrlFragment
  /\ \E i \in KeptAs(SeedUrl) : inputs[i].link = SeedUrl

\* C14 as claimed: a batch that holds http://x/a#f and http://x/a, both
\* admissible, makes filter_links yield http://x/a exactly once.
C14_TwinsYieldedOnce ==
  (pc = "returned" /\ FragmentTwins) => Occurrences(ret, SeedUrl) = 1

\* C14 amended: http://x/a#f and http://x/a are normalized to the same URL,
\* and filter_links yields a URL as many times as the batch holds an admissible
\* link that is normalized to it, so once for each of the two; it is the queue that
\* lets every URL be pending once only when the yield is passed to it.
C14_TwinsYieldedTwice ==
  /\ NormalizedLink(SeedUrlFragment) = SeedUrl
  /\ NormalizedLink(SeedUrl) = SeedUrl
  /\ pc = "returned" =>
       /\ \A u \in WebUrls : Occurrences(ret, u) = Cardinality(KeptAs(u))
       /\ Range(ret) \subseteq WebUrls
       /\ FragmentTwins => Occurrences(ret, SeedUrl) >= 2
  /\ pc = "extended" =>
       /\ \A u \in WebUrls :
            Occurrences(Pending(queue), u) = IF u = SeedUrl \/ KeptAs(u) # {} THEN 1 ELSE 0
       /\ Range(Pending(queue)) \subseteq WebUrls

\* C14: a batch of the seed URL with a fragment and without was filtered
\* with nothing to reject either, and the seed URL was yielded twice
C14_Witness ==
  /\ pc = "returned"
  /\ inputs = <<IterLink("a", "href", SeedUrlFragment), IterLink("a", "href", SeedUrl)>>
  /\ FragmentTwins
  /\ ret = <<SeedUrl, SeedUrl>>

\* C14: a batch with the same link twice was filtered and passed to the
\* queue, and the URL is pending once
C14_EnqueuedOnce ==
  /\ pc = "extended"
  /\ inputs = <<IterLink("a", "href", ChildUrl), IterLink("a", "href", ChildUrl)>>
  /\ Cardinality(KeptAs(ChildUrl)) = 2
  /\ Pending(queue) = <<SeedUrl, ChildUrl>>

(***************************************************************************)
(* More properties of the crawl, checked under SpecCrawl.                  *)
(***************************************************************************)
\* crawl() has returned or was left by an exception
Ended == pc \in {"done", "error"}

\* C15: in a crawl with recursive off the queue never knows another URL than
\* the seed; the seed is popped once and requested once, whatever comes back;
\* and when the crawl has ended, the seed was popped, nothing is pending, and
\* nothing happens any more.
C15_NonRecursiveVisitsSeedOnly ==
  /\ [](~opts.recursive =>
          /\ arrival = <<SeedUrl>>
          /\ queue.known_urls = {SeedUrl}
          /\ Pending(queue) \o popped = <<SeedUrl>>
          /\ fetches \o abandoned \in {<<>>, <<SeedUrl>>}
          /\ fetchcount = Len(fetches)
          /\ pc = "fetch" => url = SeedUrl /\ fetches \o abandoned = <<>>
          /\ Ended => popped = <<SeedUrl>> /\ Len(Pending(queue)) = 0)
  /\ [][(~opts.recursive /\ Ended) => UNCHANGED vars]_vars
  /\ [][(~opts.recursive /\ pc = "loop" /\ popped = <<SeedUrl>>) =>
          pc' = "done" /\ exc' = ""]_vars

\* C15: a crawl with recursive off and no limit of requests has fetched the
\* seed and ended with nothing pending
C15_Witness ==
  /\ ~opts.recursive
  /\ opts.max_requests = 0
  /\ pc = "done"
  /\ exc = ""
  /\ fetches = <<SeedUrl>>
  /\ popped = <<SeedUrl>>
  /\ Len(Pending(queue)) = 0
  /\ queue.known_urls = {SeedUrl}

\* the step in which a request returns with a content-location other than
\* the requested URL: url is the requested URL, url' the location
Redirected ==
  /\ pc = "fetch"
  /\ Len(fetches') = Len(fetches) + 1
  /\ url' # url

\* C16: in the step of a redirected response the URLs the queue gets to know
\* have the location as their referrer and are pending; the requested URL
\* stays known and the referrers of the known URLs stay; without links to
\* pass on the queue stays as it was.  So the location gets known only as a
\* link that was passed to the queue, never by the redirect itself.
C16_RedirectIsReferrerOnly ==
  /\ [][Redirected =>
          /\ Last(fetches') = url
          /\ url \in queue'.known_urls
          /\ queue.known_urls \subseteq queue'.known_urls
          /\ \A u \in queue'.known_urls \ queue.known_urls :
               /\ queue'.referrers[u] = url'
               /\ u \in Range(Pending(queue'))
               /\ u \notin Range(Pending(queue))
          /\ \A u \in queue.known_urls : queue'.referrers[u] = queue.referrers[u]
          /\ (~opts.recursive \/ pc' = "done") => queue' = queue]_vars
  /\ [](/\ queue.known_urls = Range(arrival)
        /\ queue.known_urls = Range(Pending(queue)) \cup Range(popped))

\* C16: the seed was redirected to the sibling URL, so that the child URL has
\* the sibling URL as its referrer; the sibling URL was not known then, got
\* known later as a link of the child's page, and was fetched
C16_Witness ==
  /\ arrival = <<SeedUrl, ChildUrl, SiblingUrl>>
  /\ queue.referrers[ChildUrl] = SiblingUrl
  /\ queue.referrers[SiblingUrl] = ChildUrl
  /\ fetches = <<SeedUrl, ChildUrl, SiblingUrl>>
  /\ SeedUrl \in queue.known_urls

(***************************************************************************)
(* Termination of the crawl, checked under SpecCrawlFair.                  *)
(***************************************************************************)
\* C17: every crawl ends, whatever the traversal and the outcomes of the
\* requests.  Every round of the loop pops one URL, a popped URL is never
\* pending again, so there are at most as many rounds as distinct URLs were
\* passed to the queue; and when crawl() has returned, nothing is pending or
\* the limit of requests is reached.
C17_CrawlTerminates ==
  /\ <>Ended
  /\ [](/\ Range(popped) \cap Range(Pending(queue)) = {}
        /\ \A u \in Range(popped) : Occurrences(popped, u) = 1
        /\ Len(popped) <= Cardinality(Range(arrival))
        /\ Range(arrival) \subseteq WebUrls
        /\ Len(fetches) + Len(abandoned) <= Len(popped)
        /\ Len(popped) <= Len(fetches) + Len(abandoned) + 1
        /\ pc = "done" =>
             \/ Len(Pending(queue)) = 0
             \/ opts.max_requests > 0 /\ fetchcount = opts.max_requests)
  /\ [][Len(popped') > Len(popped) => pc = "loop" /\ Len(popped') = Len(popped) + 1]_vars

\* C17: a crawl without a limit of requests has ended with nothing pending,
\* after it had popped the three URLs that were passed to the queue, with a
\* request that found no connection and a redirected one among them
C17_Witness ==
  /\ pc = "done"
  /\ opts.max_requests = 0
  /\ Len(Pending(queue)) = 0
  /\ Range(popped) = {SeedUrl, ChildUrl, ImageUrl}
  /\ Len(popped) = Cardinality(Range(arrival))
  /\ Len(abandoned) >= 1
  /\ \E u \in DOMAIN queue.referrers : queue.referrers[u] \notin Range(popped) \cup {None}

(***************************************************************************)
(* The loop test of the crawl, checked under SpecCrawl.                    *)
(***************************************************************************)
\* C18: crawl() never calls pop() on a queue without a pending URL.  From the
\* loop test it pops exactly when a URL is pending in some partition, and
\* then pop() returns one; otherwise crawl() returns and leaves the queue as
\* it is.  len(queue) is the number of pending URLs, and no exception of an
\* empty container is ever raised.
C18_NoPopOnEmpty ==
  /\ [](/\ QueueLen(queue) = Len(Pending(queue))
        /\ exc \notin {"IndexError", "ValueError"})
  /\ [][pc = "loop" =>
          /\ Len(Pending(queue)) > 0 <=> PopReturned
          /\ Len(Pending(queue)) > 0 <=> pc' = "fetch"
          /\ Len(Pending(queue)) = 0 <=> (pc' = "done" /\ queue' = queue)
          /\ exc' = ""]_vars
  /\ [][PopReturned => pc = "loop" /\ Len(Pending(queue)) > 0 /\ ret' # None]_vars

\* C18: a crawl with the pattern queue has popped a second URL while nothing
\* had ever entered the low-priority partition
C18_Witness ==
  /\ queue.cls = "pattern"
  /\ pc = "fetch"
  /\ Len(popped) = 2
  /\ inserted = <<>>
  /\ Len(insertedPri) >= 2
  /\ exc = ""

(***************************************************************************)
(* More properties of the queues, checked under Spec.                      *)
(***************************************************************************)
\* C19: len(queue) is the number of pending URLs over all partitions, which
\* is the number of distinct URLs ever passed in less the number of pops that
\* returned; for the pattern queue it is the size of the priority partition
\* plus the size of the low-priority partition, and no URL is in both.
C19_LenCountsPending ==
  /\ QueueLen(queue) = Len(Pending(queue))
  /\ QueueLen(queue) = Cardinality(Range(arrival)) - Len(popped)
  /\ QueueLen(queue) = Cardinality(queue.known_urls \ Range(popped))
  /\ QueueLen(queue) = Cardinality(Range(Pending(queue)))
  /\ queue.cls = "pattern" =>
       /\ QueueLen(queue) = Len(queue.priority_urls) + Len(queue.urls)
       /\ Range(queue.priority_urls) \cap Range(queue.urls) = {}
  /\ queue.cls # "pattern" => QueueLen(queue) = Len(queue.urls)

\* C19: a pattern queue holds URLs in both partitions after a pop had
\* returned and a popped URL had been passed in again
C19_Witness ==
  /\ queue.cls = "pattern"
  /\ Len(queue.priority_urls) >= 1
  /\ Len(queue.urls) >= 2
  /\ Len(popped) >= 1
  /\ repassed
  /\ QueueLen(queue) = 3

\* the known URLs of a queue that are classified to pattern p
ClassifiedTo(q, p) == {u \in q.known_urls : MakePattern(u) = p}

RECURSIVE SumOfCounts(_, _)
\* the sum of the counts d holds for the patterns ps
SumOfCounts(d, ps) ==
  IF ps = {} THEN 0
  ELSE d[CHOOSE p \in ps : TRUE] + SumOfCounts(d, ps \ {CHOOSE p \in ps : TRUE})

\* a call of pop(), whether it returned or raised
PopCalled == PopReturned \/ exc' # ""

\* C20: in a pattern queue the count of every pattern is the number of known
\* URLs classified to it, and the counts add up to the number of known URLs;
\* no count ever decreases, and none changes in a call of pop() or in a call
\* that passes in only known URLs.
C20_PatternCounts ==
  /\ [](queue.cls = "pattern" =>
          /\ DOMAIN queue.known_patterns = {MakePattern(u) : u \in queue.known_urls}
          /\ \A p \in DOMAIN queue.known_patterns :
               queue.known_patterns[p] = Cardinality(ClassifiedTo(queue, p))
          /\ SumOfCounts(queue.known_patterns, DOMAIN queue.known_patterns)
               = Cardinality(queue.known_urls))
  /\ [][queue.cls = "pattern" =>
          /\ \A p \in DOMAIN queue.known_patterns :
               /\ p \in DOMAIN queue'.known_patterns
               /\ queue'.known_patterns[p] >= queue.known_patterns[p]
          /\ PopCalled => queue'.known_patterns = queue.known_patterns
          /\ arrival' = arrival => queue'.known_patterns = queue.known_patterns]_vars

\* C20: a pattern queue counts three URLs for one pattern and one for another,
\* after a pop had returned and a popped URL had been passed in again
C20_Witness ==
  /\ queue.cls = "pattern"
  /\ Cardinality(DOMAIN queue.known_patterns) = 2
  /\ queue.known_patterns[MakePattern(UrlBlog1)] = 3
  /\ queue.known_patterns[MakePattern(UrlAbout)] = 1
  /\ MakePattern(UrlBlog1) = MakePattern(UrlBlog3)
  /\ Len(popped) >= 1
  /\ repassed

====
